---- MODULE Spec2Model ----
(***************************************************************************)
(* Model of src/src/model/Beacon.ts: the Beacon value object, its static   *)
(* factory Beacon.parse, getRoundedDistance and isEqual.                   *)
(*                                                                         *)
(* JavaScript strings are TLA+ strings; a character is a string of length  *)
(* one.  JavaScript numbers are tagged records:                            *)
(*   [k |-> "nan"]            NaN                                          *)
(*   [k |-> "int", neg, mag]  the integer parseInt returns: a sign and the *)
(*                            magnitude as base-16 digits, most            *)
(*                            significant first, no leading zero           *)
(*   [k |-> "num", v]         the integer v (a transmit power, a distance  *)
(*                            times ten after Math.round)                  *)
(*   [k |-> "pow", e]         the value 10^(e/20) that Math.pow returns    *)
(*   [k |-> "dec", m]         the decimal m * 10^-6 (a distance handed to  *)
(*                            the constructor)                             *)
(*   [k |-> "tenths", t]      the decimal t / 10 (a rounded distance)      *)
(***************************************************************************)
EXTENDS Integers, Sequences, FiniteSets, TLC

VARIABLES beacons, calls, ret, now

vars == <<beacons, calls, ret, now>>

---------------------------------------------------------------------------
(* JavaScript values *)

PROXIMITY ==
  [IMMEDIATE |-> "immediate", NEAR |-> "near", FAR |-> "far", UNKNOWN |-> "unknown"]

Null == [k |-> "null"]

NaN == [k |-> "nan"]

JsBool(b) == [k |-> "bool", b |-> b]

---------------------------------------------------------------------------
(* String.prototype.substr(start, length) for start >= 0: the characters   *)
(* from index start (0-based), at most length of them, clipped at the end  *)
(* of the string; the empty string when start is past the end.             *)

Min(a, b) == IF a < b THEN a ELSE b

CharAt(s, i) == SubSeq(s, i, i)

substr(s, start, length) ==
  IF start >= Len(s) THEN "" ELSE SubSeq(s, start + 1, Min(start + length, Len(s)))

---------------------------------------------------------------------------
(* parseInt(string, radix) and Number.prototype.toString(radix) *)

Digits36 == "0123456789abcdefghijklmnopqrstuvwxyz"

DigitsUpper36 == "0123456789ABCDEFGHIJKLMNOPQRSTUVWXYZ"

\* The value of each character that is a digit of some radix.
DigitValues ==
  [c \in {CharAt(Digits36, i) : i \in 1..36} |->
     (CHOOSE i \in 1..36 : CharAt(Digits36, i) = c) - 1]
  @@ [c \in {CharAt(DigitsUpper36, i) : i \in 1..36} |->
        (CHOOSE i \in 1..36 : CharAt(DigitsUpper36, i) = c) - 1]

\* The value of a character as a digit, 36 when it is no digit of any radix.
DigitVal(c) == IF c \in DOMAIN DigitValues THEN DigitValues[c] ELSE 36

WhiteSpace == {" "}

RECURSIVE SkipWhiteSpace(_)
SkipWhiteSpace(s) ==
  IF Len(s) > 0 /\ CharAt(s, 1) \in WhiteSpace
    THEN SkipWhiteSpace(SubSeq(s, 2, Len(s)))
    ELSE s

\* The digit values of the longest run of digits of the radix that starts
\* at character i of s.
RECURSIVE DigitPrefix(_, _, _)
DigitPrefix(s, i, radix) ==
  IF i <= Len(s) /\ DigitVal(CharAt(s, i)) < radix
    THEN <<DigitVal(CharAt(s, i))>> \o DigitPrefix(s, i + 1, radix)
    ELSE <<>>

RECURSIVE StripZeros(_)
StripZeros(ds) ==
  IF Len(ds) > 0 /\ ds[1] = 0 THEN StripZeros(Tail(ds)) ELSE ds

\* Long division of a digit sequence in base `base` by a small number d, from
\* digit i on: <<quotient digits, remainder>>, given the quotient digits so
\* far and the remainder carried in.
RECURSIVE DivDigits(_, _, _, _, _, _)
DivDigits(ds, i, base, d, quotient, carry) ==
  IF i > Len(ds) THEN <<quotient, carry>>
  ELSE DivDigits(ds, i + 1, base, d,
                 Append(quotient, (carry * base + ds[i]) \div d),
                 (carry * base + ds[i]) % d)

\* The digits in base `to` of the number whose digits in base `from` are ds,
\* before the digits already found.
RECURSIVE ConvertDigits(_, _, _, _)
ConvertDigits(ds, from, to, found) ==
  IF ds = <<>> THEN found
  ELSE LET qr == DivDigits(ds, 1, from, to, <<>>, 0)
       IN  ConvertDigits(StripZeros(qr[1]), from, to, <<qr[2]>> \o found)

ConvertBase(ds, from, to) ==
  IF from = to THEN StripZeros(ds) ELSE ConvertDigits(StripZeros(ds), from, to, <<>>)

parseInt(string, radix) ==
  LET t      == SkipWhiteSpace(string)
      signed == Len(t) > 0 /\ CharAt(t, 1) \in {"+", "-"}
      neg    == Len(t) > 0 /\ CharAt(t, 1) = "-"
      u      == IF signed THEN SubSeq(t, 2, Len(t)) ELSE t
      v      == IF radix = 16 /\ Len(u) >= 2 /\ SubSeq(u, 1, 2) \in {"0x", "0X"}
                  THEN SubSeq(u, 3, Len(u)) ELSE u
      ds     == DigitPrefix(v, 1, radix)
  IN  IF ds = <<>> THEN NaN
      ELSE [k |-> "int", neg |-> neg, mag |-> ConvertBase(ds, radix, 16)]

RECURSIVE DigitString(_)
DigitString(ds) ==
  IF ds = <<>> THEN "" ELSE CharAt(Digits36, ds[1] + 1) \o DigitString(Tail(ds))

\* Number.prototype.toString(radix): a RangeError for a radix outside 2..36.
toString(n, radix) ==
  IF radix < 2 \/ radix > 36 THEN [threw |-> TRUE, error |-> "RangeError"]
  ELSE [threw |-> FALSE,
        value |-> IF n.k = "nan" THEN "NaN"
                  ELSE IF n.mag = <<>> THEN "0"
                  ELSE (IF n.neg THEN "-" ELSE "")
                         \o DigitString(ConvertBase(n.mag, 16, radix))]

RECURSIVE DigitsValue(_, _)
DigitsValue(ds, base) ==
  IF ds = <<>> THEN 0 ELSE DigitsValue(SubSeq(ds, 1, Len(ds) - 1), base) * base + ds[Len(ds)]

\* number - k for an integer k: NaN stays NaN.
Minus(n, k) ==
  IF n.k = "nan" THEN NaN
  ELSE [k |-> "num", v |-> (IF n.neg THEN -1 ELSE 1) * DigitsValue(n.mag, 16) - k]

---------------------------------------------------------------------------
(* Math.pow(10, x), the comparisons of its result and Math.round *)

\* floor(100 * 10^(e/20)) for e = -40 .. 127, the exact values.
Pow10CentiTable ==
  <<
     1, 1, 1, 1, 1, 1, 1, 2,
     2, 2, 3, 3, 3, 4, 5, 5,
     6, 7, 7, 8, 10, 11, 12, 14,
     15, 17, 19, 22, 25, 28, 31, 35,
     39, 44, 50, 56, 63, 70, 79, 89,
     100, 112, 125, 141, 158, 177, 199, 223,
     251, 281, 316, 354, 398, 446, 501, 562,
     630, 707, 794, 891, 1000, 1122, 1258, 1412,
     1584, 1778, 1995, 2238, 2511, 2818, 3162, 3548,
     3981, 4466, 5011, 5623, 6309, 7079, 7943, 8912,
     10000, 11220, 12589, 14125, 15848, 17782, 19952, 22387,
     25118, 28183, 31622, 35481, 39810, 44668, 50118, 56234,
     63095, 70794, 79432, 89125, 100000, 112201, 125892, 141253,
     158489, 177827, 199526, 223872, 251188, 281838, 316227, 354813,
     398107, 446683, 501187, 562341, 630957, 707945, 794328, 891250,
     1000000, 1122018, 1258925, 1412537, 1584893, 1778279, 1995262, 2238721,
     2511886, 2818382, 3162277, 3548133, 3981071, 4466835, 5011872, 5623413,
     6309573, 7079457, 7943282, 8912509, 10000000, 11220184, 12589254, 14125375,
     15848931, 17782794, 19952623, 22387211, 25118864, 28183829, 31622776, 35481338,
     39810717, 44668359, 50118723, 56234132, 63095734, 70794578, 79432823, 89125093,
     100000000, 112201845, 125892541, 141253754, 158489319, 177827941, 199526231, 223872113 >>

\* floor(100 * 10^(e/20)), for e <= 127: below e = -40 the power is under 0.01.
Pow10Centi(e) == IF e < -40 THEN 0 ELSE Pow10CentiTable[e + 41]

\* How the number d compares with the integer n: "nan" when d is NaN (every
\* comparison with it is false), else "lt", "eq" or "gt".
NumCmp(d, n) ==
  IF d.k = "nan" THEN "nan"
  ELSE IF d.k = "pow"
    THEN LET c == Pow10Centi(d.e)
         IN  IF c < 100 * n THEN "lt"
             ELSE IF c = 100 * n /\ d.e % 20 = 0 THEN "eq" ELSE "gt"
  ELSE IF d.m < 1000000 * n THEN "lt"
  ELSE IF d.m = 1000000 * n THEN "eq" ELSE "gt"

\* d < n, as JavaScript evaluates it.
Less(d, n) == NumCmp(d, n) = "lt"

\* A bug: rounds toward zero.
MathRoundTimes10Truncating(d) ==
  IF d.k = "nan" THEN NaN
  ELSE IF d.k = "pow" THEN [k |-> "num", v |-> Pow10Centi(d.e) \div 10]
  ELSE [k |-> "num", v |-> IF d.m >= 0 THEN d.m \div 100000 ELSE -((-d.m) \div 100000)]

\* Math.round(d * 10): floor(d * 10 + 1/2), NaN for NaN.
MathRoundTimes10(d) ==
  IF d.k = "nan" THEN NaN
  ELSE IF d.k = "pow" THEN [k |-> "num", v |-> (Pow10Centi(d.e) + 5) \div 10]
  ELSE [k |-> "num", v |-> (d.m + 50000) \div 100000]

\* x === y for two numbers: NaN equals nothing, itself included.
StrictEquals(x, y) == x.k # "nan" /\ y.k # "nan" /\ x = y

---------------------------------------------------------------------------
(* class Beacon *)

\* constructor(uuid, joinCode, distance, proximity), Date.now() returning t
Beacon(uuid, joinCode, distance, proximity, t) ==
  [k |-> "Beacon", uuid |-> uuid, joinCode |-> joinCode, distance |-> distance,
   proximity |-> proximity, lastSeen |-> t]

getRoundedDistance(this) ==
  LET r == MathRoundTimes10(this.distance)
  IN  IF r.k = "nan" THEN NaN ELSE [k |-> "tenths", t |-> r.v]

\* b && b.uuid === this.uuid && ... : the falsy b itself when b is absent.
isEqual(this, b) ==
  IF b = Null THEN Null
  ELSE JsBool(/\ b.uuid = this.uuid
              /\ b.joinCode = this.joinCode
              /\ StrictEquals(getRoundedDistance(b), getRoundedDistance(this)))

Radix16 == 16

\* A bug: a radix toString does not accept.
JoinCodeRadixTooLarge == 36 + 1

JoinCodeRadix == 36

\* A bug: off by one.
PowerBiasOffByOne == 256 - 1

PowerBias == 256

\* A bug: minor before major.
joinCodeOfSwapped(major, minor) ==
  toString(parseInt(minor \o major, Radix16), JoinCodeRadix)

\* parseInt(`${major}${minor}`, 16).toString(36)
joinCodeOf(major, minor) ==
  toString(parseInt(major \o minor, Radix16), JoinCodeRadix)

\* A bug: + for -.
distanceOfSignSlip(power, rssi) ==
  IF power.k = "nan" THEN NaN ELSE [k |-> "pow", e |-> power.v + rssi]

\* Math.pow(10, (power - rssi) / (10 * 2)): 10^(e/20) with e = power - rssi.
distanceOf(power, rssi) ==
  IF power.k = "nan" THEN NaN ELSE [k |-> "pow", e |-> power.v - rssi]

\* A bug: <= for <.
proximityOfInclusive(distance) ==
  IF NumCmp(distance, 1) \in {"lt", "eq"} THEN PROXIMITY.IMMEDIATE
  ELSE IF NumCmp(distance, 3) \in {"lt", "eq"} THEN PROXIMITY.NEAR
  ELSE PROXIMITY.FAR

proximityOf(distance) ==
  IF Less(distance, 1) THEN PROXIMITY.IMMEDIATE
  ELSE IF Less(distance, 3) THEN PROXIMITY.NEAR
  ELSE PROXIMITY.FAR

\* Beacon.parse(dataString, rssi), Date.now() returning t: what it returns,
\* or that it threw.
parse(dataString, rssi, t) ==
  LET uuid      == substr(dataString, 0, 8) \o "-" \o substr(dataString, 8, 4) \o "-"
                     \o substr(dataString, 12, 4) \o "-" \o substr(dataString, 16, 4)
                     \o "-" \o substr(dataString, 20, 12)
      major     == substr(dataString, 32, 4)
      minor     == substr(dataString, 36, 4)
      joinCode  == joinCodeOf(major, minor)
      power     == Minus(parseInt(substr(dataString, 40, 2), Radix16), PowerBias)
      distance  == distanceOf(power, rssi)
      proximity == proximityOf(distance)
  IN  IF joinCode.threw THEN [threw |-> TRUE, value |-> Null]
      ELSE [threw |-> FALSE,
            value |-> Beacon(uuid, joinCode.value, distance, proximity, t)]

---------------------------------------------------------------------------
(* Inputs *)

Uuid1 == "1234567890ABCDEF1234567890ABCDEF"

Uuid2 == "abcdef0123456789abcdef0123456789"

\* The payload of the end-to-end example: manufacturer bytes, identity,
\* major, minor and the transmit-power byte.
ExamplePayload ==
  "AABBCCDD" \o "1234567890ABCDEF1234567890ABCDEF" \o "00000003" \o "00000007" \o "C6"

\* Hexadecimal payloads that reach through the power byte.
WellFormedPayloads ==
  { Uuid1 \o "00030007" \o "C6",
    Uuid1 \o "00030007" \o "C5",
    Uuid1 \o "00030007" \o "BA",
    Uuid2 \o "0000000a" \o "c6",
    Uuid1 \o "FFFFFFFF" \o "FF" \o "00",
    Uuid1 \o "00000000" \o "00",
    ExamplePayload }

\* Payloads that are too short, or hold something else than hexadecimal
\* digits in the fields parse reads.
MalformedPayloads ==
  { "",
    "1234567890",
    Uuid1 \o "00030007",
    Uuid1 \o "00030007" \o "C",
    "1234567890ABCDEG1234567890ABCDEF" \o "00030007" \o "C6",
    Uuid1 \o "ZZ030007" \o "C6",
    Uuid1 \o "00030007" \o "ZZ",
    Uuid1 \o "-0x1 3 7" \o "-5" }

Payloads == WellFormedPayloads \cup MalformedPayloads

Rssis == {-70, -68, -58, -40}

\* Distances, join codes and proximities handed to the constructor.
Decimals ==
  { [k |-> "dec", m |-> m] :
      m \in { 2340000, 2360000, 2449999, 2450000, 2450001, 1000000, 3000000, 50000,
              49999, 0, -49999, -50000, -50001, -2340000, -2360000, -2449999,
              -2450000, -2450001 } }

NewUuid1 == "12345678-90AB-CDEF-1234-567890ABCDEF"

NewUuid2 == "abcdef01-2345-6789-abcd-ef0123456789"

\* Join codes: every string of 1 to MaxCodeLen characters of CodeAlphabet,
\* and some longer ones.
MaxCodeLen == 3

CodeAlphabet == {"0", "1", "a", "z", "A"}

RECURSIVE StringsOfLength(_)
StringsOfLength(n) ==
  IF n = 0 THEN {""} ELSE {c \o s : c \in CodeAlphabet, s \in StringsOfLength(n - 1)}

Codes ==
  UNION {StringsOfLength(n) : n \in 1..MaxCodeLen} \cup {"zzzzzz", "1z141z3", "0000001"}

RECURSIVE Zeros(_)
Zeros(n) == IF n <= 0 THEN "" ELSE "0" \o Zeros(n - 1)

\* The encoding parse reverses: the value of the base-36 text S written in
\* hexadecimal, across the four characters of major and the four of minor.
CodeHex(S) == DigitString(ConvertBase(DigitPrefix(S, 1, 36), 36, Radix16))

EncodePayload(S) == Uuid1 \o Zeros(8 - Len(CodeHex(S))) \o CodeHex(S) \o "C6"

\* Each code whose value fits the eight characters of major and minor, with
\* the payload that encodes it.
Encodings == {<<S, EncodePayload(S)>> : S \in {C \in Codes : Len(CodeHex(C)) <= 8}}

CodePayloads == {x[2] : x \in Encodings}

MaxClock == 1

Times == 0..MaxClock

\* The signal strength the encoded payloads are decoded at.
CodeRssis == {-70}

\* Beacon.parse over the inputs of the specifications, at time 0.
parsed ==
  [x \in Payloads \X Rssis |-> parse(x[1], x[2], 0)]
  @@ [x \in CodePayloads \X CodeRssis |-> parse(x[1], x[2], 0)]

\* Date.now() is read once, by the constructor: what parse returns at time t
\* is what it returns at time 0 with lastSeen = t.
parsedAt(dataString, rssi, t) ==
  IF parsed[<<dataString, rssi>>].threw THEN parsed[<<dataString, rssi>>]
  ELSE [parsed[<<dataString, rssi>>] EXCEPT !.value.lastSeen = t]

---------------------------------------------------------------------------
(* The state: the objects the caller holds, how each was made, the last    *)
(* value a method returned, and the clock Date.now() reads.                *)

AllSlots == {"a", "b", "c"}

NoCall == [op |-> "none", dataString |-> "", rssi |-> 0, threw |-> FALSE]

NoRet == [op |-> "none", slot |-> "", self |-> Null, arg |-> Null, value |-> Null]

Init ==
  /\ beacons = [s \in AllSlots |-> Null]
  /\ calls = [s \in AllSlots |-> NoCall]
  /\ ret = NoRet
  /\ now = 0

\* The times Date.now() may return next: it does not go back.
Clock == now .. Min(now + 1, MaxClock)

DoParse(s, dataString, rssi) ==
  \E t \in Clock :
    LET res == parsedAt(dataString, rssi, t)
    IN  /\ beacons' = [beacons EXCEPT ![s] = res.value]
        /\ calls' = [calls EXCEPT ![s] = [op |-> "parse", dataString |-> dataString,
                                          rssi |-> rssi, threw |-> res.threw]]
        /\ now' = IF res.threw THEN now ELSE t
        /\ ret' = NoRet

DoNew(s, uuid, joinCode, distance, proximity) ==
  \E t \in Clock :
    /\ beacons' = [beacons EXCEPT ![s] = Beacon(uuid, joinCode, distance, proximity, t)]
    /\ calls' = [calls EXCEPT ![s] = [NoCall EXCEPT !.op = "new"]]
    /\ now' = t
    /\ ret' = NoRet

DoGetRoundedDistance(s) ==
  /\ beacons[s] # Null
  /\ ret' = [op |-> "getRoundedDistance", slot |-> s, self |-> beacons[s],
             arg |-> Null, value |-> getRoundedDistance(beacons[s])]
  /\ UNCHANGED <<beacons, calls, now>>

\* this is the object in slot s; the argument is the object in slot o, or
\* null when o names no slot or the slot is empty.
DoIsEqual(s, o) ==
  /\ beacons[s] # Null
  /\ LET b == IF o \in AllSlots THEN beacons[o] ELSE Null
     IN  ret' = [op |-> "isEqual", slot |-> s, self |-> beacons[s], arg |-> b,
                 value |-> isEqual(beacons[s], b)]
  /\ UNCHANGED <<beacons, calls, now>>

---------------------------------------------------------------------------
(* Specifications *)

\* Decoding: two objects made by Beacon.parse.
Next ==
  \E s \in {"a", "b"}, p \in Payloads, r \in Rssis : DoParse(s, p, r)

Spec == Init /\ [][Next]_vars

\* Rounding: an object made by the constructor or by Beacon.parse, and its
\* rounded distance.
NextRound ==
  \/ \E d \in Decimals \cup {NaN}, j \in {"a", "b"},
        x \in {PROXIMITY.NEAR, PROXIMITY.UNKNOWN} : DoNew("a", NewUuid1, j, d, x)
  \/ \E p \in Payloads, r \in Rssis : DoParse("a", p, r)
  \/ DoGetRoundedDistance("a")

\* The join code: an object decoded from a payload that encodes a code.
NextCode ==
  \E p \in CodePayloads, r \in CodeRssis : DoParse("a", p, r)

SpecCode == Init /\ [][NextCode]_vars

SpecRound == Init /\ [][NextRound]_vars

\* Comparing two objects, or an object and null.
NextPair ==
  \/ \E s \in {"a", "b"}, u \in {NewUuid1, NewUuid2}, j \in {"a", "b"},
        d \in { [k |-> "dec", m |-> m] : m \in {2360000, 2449999, 2450000} },
        x \in {PROXIMITY.NEAR, PROXIMITY.FAR} : DoNew(s, u, j, d, x)
  \/ \E s \in {"a", "b"}, p \in {Uuid1 \o "00030007" \o "C6", ""}, r \in {-70, -68} :
        DoParse(s, p, r)
  \/ \E s \in {"a", "b"}, o \in {"a", "b", "null"} : DoIsEqual(s, o)

SpecPair == Init /\ [][NextPair]_vars

\* Comparing three objects made by Beacon.parse.
NextEquiv ==
  \/ \E s \in AllSlots,
        p \in {Uuid1 \o "00030007" \o "C6", Uuid1 \o "00030007" \o "C5", ""},
        r \in {-70, -40} : DoParse(s, p, r)
  \/ \E s \in AllSlots, o \in AllSlots : DoIsEqual(s, o)

SpecEquiv == Init /\ [][NextEquiv]_vars

---------------------------------------------------------------------------
(* Properties *)

Abs(n) == IF n < 0 THEN -n ELSE n

IsHexChar(c) == DigitVal(c) < 16

AllHex(s) == \A i \in 1..Len(s) : IsHexChar(CharAt(s, i))

\* The characters a payload needs to reach through the transmit-power field.
RequiredLength == 40 + 2

WellFormed(dataString) ==
  Len(dataString) >= RequiredLength /\ AllHex(substr(dataString, 0, RequiredLength))

Decoded(s) == calls[s].op = "parse"

\* C1: decode returns null, and no record, for every payload that is too
\* short to reach through the transmit-power field (the empty string and a
\* string of 10 hexadecimal characters among them) and for every payload with
\* a character that is no hexadecimal digit in the fields it reads, whatever
\* the signal strength.
C1_MalformedPayloadRejected ==
  \A s \in AllSlots :
    Decoded(s) /\ ~WellFormed(calls[s].dataString)
      => ~calls[s].threw /\ beacons[s] = Null

\* C2: decode never throws: for every payload string and every signal
\* strength the call completes with a record or null.
C2_ParseNeverThrows ==
  \A s \in AllSlots :
    Decoded(s) => ~calls[s].threw /\ (beacons[s] = Null \/ beacons[s].k = "Beacon")

C2_GarbageDecoded ==
  \E s \in AllSlots :
    /\ Decoded(s) /\ ~calls[s].threw
    /\ calls[s].dataString = Uuid1 \o "-0x1 3 7" \o "-5"
    /\ beacons[s] # Null

IdentityOf(uuid, dataString) ==
  /\ Len(uuid) = 36
  /\ \A i \in {9, 14, 19, 24} : CharAt(uuid, i) = "-"
  /\ \A i \in (1..36) \ {9, 14, 19, 24} : IsHexChar(CharAt(uuid, i))
  /\ SubSeq(uuid, 1, 8) \o SubSeq(uuid, 10, 13) \o SubSeq(uuid, 15, 18)
       \o SubSeq(uuid, 20, 23) \o SubSeq(uuid, 25, 36) = SubSeq(dataString, 1, 32)

\* C4: every record decode returns, for any payload, has an identity of five
\* dash-separated groups of 8-4-4-4-12 hexadecimal characters, the 32 identity
\* characters of the payload in order with their case; and for every payload
\* of the right length and characters the result is a record.
C4_IdentityShape ==
  \A s \in AllSlots :
    Decoded(s) =>
      /\ beacons[s] # Null => IdentityOf(beacons[s].uuid, calls[s].dataString)
      /\ WellFormed(calls[s].dataString) => beacons[s] # Null

\* A base-36 text as toString(36) writes one: digits and lower-case letters,
\* no leading zero but for "0" itself.
Canonical(S) ==
  /\ Len(S) >= 1
  /\ \A i \in 1..Len(S) : \E j \in 1..36 : CharAt(S, i) = CharAt(Digits36, j)
  /\ Len(S) > 1 => CharAt(S, 1) # "0"

\* Decoding the payload that encodes S gives the join code S.
RoundTrips(x) ==
  Decoded("a") /\ calls["a"].dataString = x[2]
    => beacons["a"] # Null /\ beacons["a"].joinCode = x[1]

\* C5 as stated: for any base-36 string S, encoding S into the major and
\* minor fields and decoding the payload gives the join code S exactly.
C5_RoundTripAnyCode == \A x \in Encodings : RoundTrips(x)

\* C5: for a base-36 text S of digits and lower-case letters without a
\* leading zero (or "0" itself) whose value fits the eight hexadecimal
\* characters of major and minor, encoding S and decoding the payload gives
\* the join code S exactly.
C5_RoundTripCanonicalCode == \A x \in Encodings : Canonical(x[1]) => RoundTrips(x)

C5_LongCodeDecoded ==
  /\ Decoded("a") /\ calls["a"].dataString = EncodePayload("1z141z3")
  /\ beacons["a"] # Null /\ beacons["a"].joinCode = "1z141z3"

\* C6: the proximity of every record decode returns is decided by its
\* distance alone: immediate below 1, near from 1 up to but not 3, far from 3
\* on; a distance of exactly 1 is near; decode never assigns unknown.
C6_ProximityFromDistance ==
  \A s \in AllSlots :
    Decoded(s) /\ beacons[s] # Null =>
      LET d  == beacons[s].distance
          c1 == NumCmp(d, 1)
          c3 == NumCmp(d, 3)
      IN  /\ c1 = "lt" => beacons[s].proximity = PROXIMITY.IMMEDIATE
          /\ c1 \in {"eq", "gt"} /\ c3 = "lt" => beacons[s].proximity = PROXIMITY.NEAR
          /\ c3 \in {"eq", "gt"} => beacons[s].proximity = PROXIMITY.FAR
          /\ beacons[s].proximity
               \in {PROXIMITY.IMMEDIATE, PROXIMITY.NEAR, PROXIMITY.FAR}
          /\ \A t \in AllSlots :
               Decoded(t) /\ beacons[t] # Null /\ beacons[t].distance = d
                 => beacons[t].proximity = beacons[s].proximity

C6_DistanceExactlyOne ==
  \E s \in AllSlots :
    /\ Decoded(s) /\ beacons[s] # Null
    /\ NumCmp(beacons[s].distance, 1) = "eq"
    /\ beacons[s].proximity = PROXIMITY.NEAR

\* C7: isEqual returns true exactly when the other record is present and its
\* uuid, join code and rounded distance each strictly equal this record's,
\* whatever the proximities and lastSeen; for an absent other it returns
\* false.
C7_IsEqualBoolean ==
  ret.op = "isEqual" =>
    /\ ret.value = JsBool(TRUE) <=>
         /\ ret.arg # Null
         /\ ret.arg.uuid = ret.self.uuid
         /\ ret.arg.joinCode = ret.self.joinCode
         /\ StrictEquals(getRoundedDistance(ret.arg), getRoundedDistance(ret.self))
    /\ ret.arg = Null => ret.value = JsBool(FALSE)

\* t tenths is a multiple of 0.1 nearest to the distance d.
NearestTenth(d, t) ==
  IF d.k = "pow"
    THEN 10 * t - 5 <= Pow10Centi(d.e) /\ Pow10Centi(d.e) < 10 * t + 5
    ELSE 2 * Abs(d.m - 100000 * t) <= 100000

\* d lies halfway between t tenths and a neighbouring multiple of 0.1.
Tie(d, t) == d.k = "dec" /\ 2 * Abs(d.m - 100000 * t) = 100000

RoundingExamples(d, t) ==
  /\ d = [k |-> "dec", m |-> 2340000] => t = 23
  /\ d = [k |-> "dec", m |-> 2360000] => t = 24
  /\ d = [k |-> "dec", m |-> 2449999] => t = 24
  /\ d = [k |-> "dec", m |-> 2450000] => t = 25

\* C8 as stated: getRoundedDistance returns the distance rounded to the
\* nearest 0.1, ties away from zero, for every distance a record can hold,
\* negative ones included, and leaves the record as it was.
C8_RoundsHalfAwayFromZero ==
  ret.op = "getRoundedDistance" =>
    /\ beacons[ret.slot] = ret.self
    /\ IF ret.self.distance.k = "nan" THEN ret.value = NaN
       ELSE /\ ret.value.k = "tenths"
            /\ NearestTenth(ret.self.distance, ret.value.t)
            /\ RoundingExamples(ret.self.distance, ret.value.t)
            /\ Tie(ret.self.distance, ret.value.t)
                 => Abs(100000 * ret.value.t) > Abs(ret.self.distance.m)

\* C8: getRoundedDistance returns the distance rounded to the nearest 0.1,
\* ties toward positive infinity (2.45 -> 2.5 but -2.45 -> -2.4), NaN for a
\* NaN distance, and leaves the record as it was.
C8_RoundsHalfUp ==
  ret.op = "getRoundedDistance" =>
    /\ beacons[ret.slot] = ret.self
    /\ IF ret.self.distance.k = "nan" THEN ret.value = NaN
       ELSE /\ ret.value.k = "tenths"
            /\ NearestTenth(ret.self.distance, ret.value.t)
            /\ RoundingExamples(ret.self.distance, ret.value.t)
            /\ Tie(ret.self.distance, ret.value.t)
                 => 100000 * ret.value.t > ret.self.distance.m

C8_NegativeTieRounded ==
  /\ ret.op = "getRoundedDistance"
  /\ ret.self.distance = [k |-> "dec", m |-> -2450000]
  /\ ret.value = [k |-> "tenths", t |-> -24]

\* The transmit power a well-formed payload carries: its power byte less 256.
TxPower(dataString) ==
  16 * DigitVal(CharAt(dataString, 41)) + DigitVal(CharAt(dataString, 42)) - 256

\* 10^(x.e/20) < 10^(y.e/20)
DistanceLess(x, y) == x.k = "pow" /\ y.k = "pow" /\ x.e < y.e

OnlyPowerByteDiffers(p, q) ==
  /\ Len(p) = Len(q)
  /\ SubSeq(p, 1, 40) = SubSeq(q, 1, 40)
  /\ SubSeq(p, 43, Len(p)) = SubSeq(q, 43, Len(q))

\* C9: the distance is 10^((txPower - rssi)/20) with txPower the power byte
\* less 256; of two well-formed payloads that differ in the power byte only,
\* at one rssi, the larger txPower gives the strictly larger distance; of one
\* payload at two rssi, the larger rssi gives the strictly smaller distance.
C9_DistanceMonotone ==
  \A s, t \in AllSlots :
    Decoded(s) /\ WellFormed(calls[s].dataString) =>
      /\ beacons[s] # Null
      /\ beacons[s].distance =
           [k |-> "pow", e |-> TxPower(calls[s].dataString) - calls[s].rssi]
      /\ Decoded(t) /\ WellFormed(calls[t].dataString) /\ beacons[t] # Null =>
           /\ /\ OnlyPowerByteDiffers(calls[s].dataString, calls[t].dataString)
              /\ calls[s].rssi = calls[t].rssi
              /\ TxPower(calls[s].dataString) < TxPower(calls[t].dataString)
              => DistanceLess(beacons[s].distance, beacons[t].distance)
           /\ /\ calls[s].dataString = calls[t].dataString
              /\ calls[s].rssi > calls[t].rssi
              => DistanceLess(beacons[s].distance, beacons[t].distance)

C9_BothOrdersDecoded ==
  /\ Decoded("a") /\ Decoded("b")
  /\ calls["a"].dataString = Uuid1 \o "00030007" \o "BA"
  /\ calls["b"].dataString = Uuid1 \o "00030007" \o "C6"
  /\ calls["a"].rssi = -70 /\ calls["b"].rssi = -70
  /\ beacons["a"] # Null /\ beacons["b"] # Null
  /\ DistanceLess(beacons["a"].distance, beacons["b"].distance)

Equal(x, y) == isEqual(x, y) = JsBool(TRUE)

\* C10: isEqual is an equivalence over the records decode returns: reflexive,
\* symmetric and transitive.
C10_IsEqualEquivalence ==
  \A s, t, u \in AllSlots :
    Decoded(s) /\ Decoded(t) /\ Decoded(u)
    /\ beacons[s] # Null /\ beacons[t] # Null /\ beacons[u] # Null
      => /\ Equal(beacons[s], beacons[s])
         /\ Equal(beacons[s], beacons[t]) <=> Equal(beacons[t], beacons[s])
         /\ Equal(beacons[s], beacons[t]) /\ Equal(beacons[t], beacons[u])
              => Equal(beacons[s], beacons[u])

====
